---- MODULE Spec2Model ----
(***************************************************************************)
(* cyrtag-fixer (src/src/main.rs): repair of cp1251 mojibake in audio tags *)
(* and .cue files.                                                         *)
(*                                                                         *)
(* Text is a sequence of Unicode code points, file content a sequence of   *)
(* bytes.  The f64 threshold and score are kept exact in tenths: a         *)
(* threshold th stands for th/10, and  score > threshold  is compared      *)
(* after multiplying both sides by 10*len.                                 *)
(*                                                                         *)
(* Two specifications:                                                     *)
(*   SpecFix  fix_mojibake as a pure function, applied to bounded inputs   *)
(*   Spec     two consecutive runs of main over a small directory tree     *)
(***************************************************************************)
EXTENDS Integers, Sequences, FiniteSets

\* ------------------------------------------------------------------ bounds
\* longest generated tag text (SpecFix)
MaxLen == 3
\* thresholds range over -MaxTheta/10 .. MaxTheta/10
MaxTheta == 3
\* longest .cue file, in bytes (Spec)
MaxRaw == 2
\* most items in a tag (Spec)
MaxItems == 2
\* most I/O errors met in the two runs together (Spec)
MaxFaults == 1

\* ------------------------------------------------------- program constants
\* WEIGHT_CYR = 1.0 and WEIGHT_DIACRITICS = 0.8, in tenths
WEIGHT_CYR == 10
WEIGHT_DIACRITICS == 8

LATIN_DIACRITICS ==
  {228, 246, 252, 223, 196, 214, 220, 233, 232, 234, 235, 225, 224, 226, 229,
   237, 236, 238, 243, 242, 244, 250, 249, 251}

AUDIO_EXTENSIONS == {"mp3", "flac", "m4a", "mp4", "ogg", "wav"}
TEXT_EXTENSIONS == {"cue"}

\* ----------------------------------------------------------------- helpers
Range(s) == {s[i] : i \in DOMAIN s}

SeqsUpTo(S, n) == UNION {[1..k -> S] : k \in 0..n}

RECURSIVE Concat(_)
\* the concatenation of a sequence of sequences
Concat(ss) == IF ss = <<>> THEN <<>> ELSE Head(ss) \o Concat(Tail(ss))

RECURSIVE Digits(_)
\* the decimal digits of n >= 0, as ASCII characters
Digits(n) == IF n < 10 THEN <<48 + n>> ELSE Digits(n \div 10) \o <<48 + (n % 10)>>

\* ------------------------------------------------- encoding_rs WINDOWS_1251
\* bytes 0x80..0xBF of the windows-1251 index; 0xC0..0xFF are U+0410..U+044F
Index1251Low ==
  <<1026, 1027, 8218, 1107, 8222, 8230, 8224, 8225,
    8364, 8240, 1033, 8249, 1034, 1036, 1035, 1039,
    1106, 8216, 8217, 8220, 8221, 8226, 8211, 8212,
    152, 8482, 1113, 8250, 1114, 1116, 1115, 1119,
    160, 1038, 1118, 1032, 164, 1168, 166, 167,
    1025, 169, 1028, 171, 172, 173, 174, 1031,
    176, 177, 1030, 1110, 1169, 181, 182, 183,
    1105, 8470, 1108, 187, 1112, 1029, 1109, 1111>>

\* the character of one byte: decoding a single-byte code page is total
decode_byte(b) ==
  IF b < 128 THEN b
  ELSE IF b < 192 THEN Index1251Low[b - 127]
  ELSE b + 848

\* WINDOWS_1251.decode(bytes).0
decode_1251(bytes) == [i \in DOMAIN bytes |-> decode_byte(bytes[i])]

\* the bytes of one character under WINDOWS_1251.encode: its byte when the
\* code page has the character, else the numeric character reference &#N;
encode_char_1251(c) ==
  IF c < 128 THEN <<c>>
  ELSE IF c >= 1040 /\ c <= 1103 THEN <<c - 848>>
  ELSE IF \E i \in DOMAIN Index1251Low : Index1251Low[i] = c
       THEN <<127 + (CHOOSE i \in DOMAIN Index1251Low : Index1251Low[i] = c)>>
  ELSE <<38, 35>> \o Digits(c) \o <<59>>

\* what the intended repair would use: the byte the character stands for when
\* cp1251 bytes were read as Latin-1 (kept for the mutation of encode_1251)
encode_char_latin1(c) ==
  IF c < 256 THEN <<c>> ELSE <<38, 35>> \o Digits(c) \o <<59>>

encode_latin1(text) == Concat([i \in DOMAIN text |-> encode_char_latin1(text[i])])

\* WINDOWS_1251.encode(text).0
encode_1251(text) == Concat([i \in DOMAIN text |-> encode_char_1251(text[i])])

\* ------------------------------------------------------------- str::trim
\* char::is_whitespace: the Unicode White_Space property
IsWhitespace(c) ==
  \/ c \in 9..13
  \/ c \in {32, 133, 160, 5760, 8232, 8233, 8239, 8287, 12288}
  \/ c \in 8192..8202

RECURSIVE TrimStart(_)
TrimStart(s) ==
  IF s # <<>> /\ IsWhitespace(Head(s)) THEN TrimStart(Tail(s)) ELSE s

RECURSIVE TrimEnd(_)
TrimEnd(s) ==
  IF s # <<>> /\ IsWhitespace(s[Len(s)])
  THEN TrimEnd(SubSeq(s, 1, Len(s) - 1)) ELSE s

trim(s) == TrimEnd(TrimStart(s))

\* ---------------------------------------------------------- the detector
is_cyrillic(c) == c >= 1024 /\ c <= 1279

cyrillic_count(s) == Cardinality({i \in DOMAIN s : is_cyrillic(s[i])})

latin_diacritics_count(s) == Cardinality({i \in DOMAIN s : s[i] \in LATIN_DIACRITICS})

\* Option<String>
None == [some |-> FALSE, val |-> <<>>]
Some(s) == [some |-> TRUE, val |-> s]
unwrap_or(o, d) == IF o.some THEN o.val ELSE d

\* decoded_str: the candidate repair
candidate(text) == trim(decode_1251(encode_1251(text)))

\* mutations of score_exceeds
score_exceeds_or_equal(cyr, dia, len, th) ==
  len > 0 /\ WEIGHT_CYR * cyr - WEIGHT_DIACRITICS * dia >= th * len

score_exceeds_reversed(cyr, dia, len, th) ==
  len > 0 /\ WEIGHT_CYR * cyr - WEIGHT_DIACRITICS * dia < th * len

score_exceeds_len_max1(cyr, dia, len, th) ==
  WEIGHT_CYR * cyr - WEIGHT_DIACRITICS * dia > th * (IF len > 0 THEN len ELSE 1)

\* score > cyr_threshold, where score = WEIGHT_CYR * cyr/len -
\* WEIGHT_DIACRITICS * dia/len.  With len = 0 both ratios are 0.0/0.0 = NaN
\* (no diacritic survives in a text that decodes to nothing), the score is
\* NaN and every comparison with NaN is false.
score_exceeds(cyr, dia, len, th) ==
  len > 0 /\ WEIGHT_CYR * cyr - WEIGHT_DIACRITICS * dia > th * len

\* mutation of fix_mojibake: the early return on Cyrillic input is missing
fix_mojibake_unguarded(text, th) ==
  LET decoded_str == candidate(text) IN
    IF score_exceeds(cyrillic_count(decoded_str), latin_diacritics_count(text),
                     Len(decoded_str), th)
    THEN Some(decoded_str) ELSE None

fix_mojibake(text, th) ==
  IF cyrillic_count(text) > 0 THEN None
  ELSE LET decoded_str == candidate(text) IN
    IF score_exceeds(cyrillic_count(decoded_str), latin_diacritics_count(text),
                     Len(decoded_str), th)
    THEN Some(decoded_str) ELSE None

\* ------------------------------------------------------------------ UTF-8
IsCont(b) == b >= 128 /\ b <= 191

RECURSIVE Utf8Valid(_)
\* String::from_utf8(raw).is_ok()
Utf8Valid(b) ==
  IF b = <<>> THEN TRUE
  ELSE LET h == b[1]
           n == Len(b)
           rest(k) == SubSeq(b, k + 1, n)
       IN IF h < 128 THEN Utf8Valid(rest(1))
          ELSE IF h >= 194 /\ h <= 223
            THEN n >= 2 /\ IsCont(b[2]) /\ Utf8Valid(rest(2))
          ELSE IF h >= 224 /\ h <= 239
            THEN /\ n >= 3
                 /\ IsCont(b[2]) /\ IsCont(b[3])
                 /\ (h = 224 => b[2] >= 160)
                 /\ (h = 237 => b[2] <= 159)
                 /\ Utf8Valid(rest(3))
          ELSE IF h >= 240 /\ h <= 244
            THEN /\ n >= 4
                 /\ IsCont(b[2]) /\ IsCont(b[3]) /\ IsCont(b[4])
                 /\ (h = 240 => b[2] >= 144)
                 /\ (h = 244 => b[2] <= 143)
                 /\ Utf8Valid(rest(4))
          ELSE FALSE

utf8_char(c) ==
  IF c < 128 THEN <<c>>
  ELSE IF c < 2048 THEN <<192 + (c \div 64), 128 + (c % 64)>>
  ELSE IF c < 65536
    THEN <<224 + (c \div 4096), 128 + ((c \div 64) % 64), 128 + (c % 64)>>
  ELSE <<240 + (c \div 262144), 128 + ((c \div 4096) % 64),
         128 + ((c \div 64) % 64), 128 + (c % 64)>>

\* content.as_bytes()
as_bytes(s) == Concat([i \in DOMAIN s |-> utf8_char(s[i])])

\* --------------------------------------------------------------- the files
\* A file on disk: the bytes of a .cue file, the tags of an audio file (its
\* primary tag and one tag of another type; the audio stream is left out).
NoTag == [present |-> FALSE, items |-> <<>>]
Tag(items) == [present |-> TRUE, items |-> items]
File(bytes, primary, other) == [bytes |-> bytes, primary |-> primary, other |-> other]
EmptyFile == File(<<>>, NoTag, NoTag)
NoBak == [exists |-> FALSE, file |-> EmptyFile]
Bak(f) == [exists |-> TRUE, file |-> f]

\* the entries WalkDir yields
CuePath == [name |-> "album", ext |-> "CUE"]
AudioPath == [name |-> "track", ext |-> "flac"]
OtherPath == [name |-> "cover", ext |-> "jpg"]
Paths == {CuePath, AudioPath, OtherPath}
\* the order in which the walk yields them
Walk == <<CuePath, OtherPath, AudioPath>>

\* ext.to_lowercase(), on the extensions of Paths
to_lowercase(e) == IF e = "CUE" THEN "cue" ELSE e

is_cue(p) == to_lowercase(p.ext) \in TEXT_EXTENSIONS
is_audio(p) == ~is_cue(p) /\ to_lowercase(p.ext) \in AUDIO_EXTENSIONS

\* ---------------------------------------------------------- BackupManager
CopyOutcomes == {"ok", "err", "err_partial"}

\* fs::copy(path, backup_path): the copy is made, or fails before the .bak is
\* opened, or fails after it was created and truncated
create_backup(file, oldbak, copy) ==
  IF copy = "ok" THEN [ok |-> TRUE, bak |-> Bak(file)]
  ELSE IF copy = "err" THEN [ok |-> FALSE, bak |-> oldbak]
  ELSE [ok |-> FALSE, bak |-> Bak(EmptyFile)]

\* mutation of backup_file: the error of the copy is not propagated
backup_file_swallow(nb, file, oldbak, copy) ==
  [ok |-> TRUE, bak |-> IF nb THEN oldbak ELSE create_backup(file, oldbak, copy).bak]

backup_file(nb, file, oldbak, copy) ==
  IF nb THEN [ok |-> TRUE, bak |-> oldbak]
  ELSE create_backup(file, oldbak, copy)

\* ------------------------------------------------------------- process_cue
\* mutation of cue_content: no UTF-8 probe, every file is taken for cp1251
cue_content_no_probe(raw, force) ==
  [skip |-> FALSE, content |-> decode_1251(raw)]

\* the content to write, or skip when the file is left as it is
cue_content(raw, force) ==
  IF force THEN [skip |-> FALSE, content |-> decode_1251(raw)]
  ELSE IF Utf8Valid(raw) THEN [skip |-> TRUE, content |-> <<>>]
  ELSE [skip |-> FALSE, content |-> decode_1251(raw)]

\* ----------------------------------------------------------- process_audio
TextItem(k, v) == [key |-> k, text |-> TRUE, val |-> v]
BinaryItem(k) == [key |-> k, text |-> FALSE, val |-> <<1>>]

\* tagged_file.primary_tag(), else tagged_file.first_tag()
select_tag(file) ==
  IF file.primary.present THEN "primary"
  ELSE IF file.other.present THEN "other"
  ELSE "none"

tag_of(file, slot) == IF slot = "primary" THEN file.primary ELSE file.other

RECURSIVE collect_fixes(_, _)
\* the (key, fixed) pairs of the text items fix_mojibake repairs, in order
collect_fixes(items, th) ==
  IF items = <<>> THEN <<>>
  ELSE LET item == Head(items)
           fixed == fix_mojibake(item.val, th)
       IN (IF item.text /\ fixed.some
           THEN <<[key |-> item.key, fixed |-> fixed.val]>> ELSE <<>>)
          \o collect_fixes(Tail(items), th)

\* mutation of insert_text: the item is added and the old one is kept
insert_text_append(items, key, fixed) ==
  items \o <<TextItem(key, fixed)>>

\* Tag::insert_text: the items of that key are replaced by the new item
insert_text(items, key, fixed) ==
  SelectSeq(items, LAMBDA i : i.key # key) \o <<TextItem(key, fixed)>>

RECURSIVE apply_fixes(_, _)
apply_fixes(items, fixes) ==
  IF fixes = <<>> THEN items
  ELSE apply_fixes(insert_text(items, Head(fixes).key, Head(fixes).fixed), Tail(fixes))

\* tag.save_to_path: the tag of that type is replaced in the file
save_to_path(file, slot, items) ==
  IF slot = "primary" THEN [file EXCEPT !.primary = Tag(items)]
  ELSE [file EXCEPT !.other = Tag(items)]

\* ------------------------------------------------------------------ inputs
Alphabet == {32, 97, 160, 171, 233, 1083}
\* "Ëüâèöà ðîêà", the example of fix_mojibake's comment, and its repair
Lvica == <<203, 252, 226, 232, 246, 224, 32, 240, 238, 234, 224>>
LvicaRoka == <<1051, 1100, 1074, 1080, 1094, 1072, 32, 1088, 1086, 1082, 1072>>
Texts == SeqsUpTo(Alphabet, MaxLen) \cup {Lvica}
Thresholds == (0 - MaxTheta)..MaxTheta

\* the two bytes of UTF-8 "Л": in cp1251 they are "Р" and "›"
CueBytes == {208, 155}
CueFiles == {File(b, NoTag, NoTag) : b \in SeqsUpTo(CueBytes, MaxRaw)}

TagItems ==
  {TextItem("Title", <<233>>), TextItem("Title", <<1083>>),
   TextItem("Artist", <<233>>), BinaryItem("Cover")}
Tags == SeqsUpTo(TagItems, MaxItems)
AudioFiles ==
  {File(<<>>, Tag(t), NoTag) : t \in Tags}
  \cup {File(<<>>, NoTag, Tag(t)) : t \in {u \in Tags : Len(u) = 1}}
  \cup {EmptyFile}

\* --cyr-threshold: -0.2 and the default 0.2
RunThresholds == {0 - 2, 2}

\* ------------------------------------------------------------------- state
VARIABLES
  \* SpecFix: fix_mojibake's argument, and what its applications returned
  text, stage, result, again, lower,
  \* Args
  no_backup, force_cp1251_cue, cyr_threshold,
  \* the directory tree: each path's file, and its sibling <name>.bak
  disk, bak,
  \* main: the run (1, 2), the number of entries the walk has yielded,
  \* count_fixed
  run, walked, count_fixed,
  \* the I/O errors met so far
  faults,
  \* the processor's position, its path, and its locals (content of
  \* process_cue; tag of process_audio and the kind of tag selected)
  pc, cur, content, tag, slot,
  \* history: per path, the file and its .bak when the processor was entered,
  \* how the processor ended in this run, whether backup_file has returned
  \* Ok in the call in progress; the tree before run 1; and at the end of
  \* run 1 the files and how each processor ended
  pre, prebak, outcome, backed, orig, after1, outcome1

fvars == <<text, stage, result, again, lower>>
args == <<no_backup, force_cp1251_cue, cyr_threshold>>
rvars == <<disk, bak, run, walked, count_fixed, faults, pc, cur, content, tag, slot>>
hvars == <<pre, prebak, outcome, backed, orig, after1, outcome1>>
vars == <<fvars, args, rvars, hvars>>

NoOutcomes == [p \in Paths |-> "none"]
NoBaks == [p \in Paths |-> NoBak]
EmptyTree == [p \in Paths |-> EmptyFile]

\* the processor returned an I/O error
Errors == {"read_err", "backup_err", "write_err"}

\* ----------------------------------------------------------------- SpecFix
IdleRun ==
  /\ disk = EmptyTree /\ bak = NoBaks
  /\ no_backup = FALSE /\ force_cp1251_cue = FALSE
  /\ run = 1 /\ walked = 0 /\ count_fixed = 0 /\ faults = 0
  /\ pc = "walk" /\ cur = OtherPath /\ content = <<>> /\ tag = <<>> /\ slot = "none"
  /\ pre = EmptyTree /\ prebak = NoBaks /\ outcome = NoOutcomes /\ backed = FALSE
  /\ orig = EmptyTree /\ after1 = EmptyTree /\ outcome1 = NoOutcomes

InitFix ==
  /\ text \in Texts
  /\ cyr_threshold \in Thresholds
  /\ stage = "init"
  /\ result = None /\ again = None
  /\ lower = [th |-> 0, res |-> None]
  /\ IdleRun

\* fix_mojibake(text, cyr_threshold)
Apply ==
  /\ stage = "init"
  /\ result' = fix_mojibake(text, cyr_threshold)
  /\ stage' = "applied"
  /\ UNCHANGED <<text, again, lower, args, rvars, hvars>>

\* fix_mojibake(result.unwrap_or(text), cyr_threshold)
Reapply ==
  /\ stage = "applied"
  /\ again' = fix_mojibake(unwrap_or(result, text), cyr_threshold)
  /\ stage' = "reapplied"
  /\ UNCHANGED <<text, result, lower, args, rvars, hvars>>

\* fix_mojibake(text, th) for a lower threshold th
ApplyLower ==
  /\ stage = "applied"
  /\ \E th \in Thresholds :
       /\ th < cyr_threshold
       /\ lower' = [th |-> th, res |-> fix_mojibake(text, th)]
  /\ stage' = "lowered"
  /\ UNCHANGED <<text, result, again, args, rvars, hvars>>

NextFix == Apply \/ Reapply \/ ApplyLower

SpecFix == InitFix /\ [][NextFix]_vars

\* -------------------------------------------------------------------- Spec
InitFixIdle ==
  /\ text = <<>> /\ stage = "init" /\ result = None /\ again = None
  /\ lower = [th |-> 0, res |-> None]

Init ==
  /\ InitFixIdle
  /\ no_backup \in BOOLEAN
  /\ force_cp1251_cue \in BOOLEAN
  /\ cyr_threshold \in RunThresholds
  /\ \E c \in CueFiles, a \in AudioFiles :
       disk = [p \in Paths |-> IF p = CuePath THEN c
                               ELSE IF p = AudioPath THEN a ELSE EmptyFile]
  /\ bak = NoBaks
  /\ run = 1 /\ walked = 0 /\ count_fixed = 0 /\ faults = 0
  /\ pc = "walk" /\ cur = OtherPath /\ content = <<>> /\ tag = <<>> /\ slot = "none"
  /\ pre = disk /\ prebak = bak /\ outcome = NoOutcomes /\ backed = FALSE
  /\ orig = disk /\ after1 = disk /\ outcome1 = NoOutcomes

\* an operation of the file system or of the tag library ends in way w;
\* each way but "ok" is one more I/O error
Fault(w) ==
  /\ faults' = IF w = "ok" THEN faults ELSE faults + 1
  /\ faults' <= MaxFaults

\* the processor is entered for path p
Enter(p) ==
  /\ pre' = [pre EXCEPT ![p] = disk[p]]
  /\ prebak' = [prebak EXCEPT ![p] = bak[p]]

\* the processor returns for path p (true when how = "modified") and the loop
\* of main goes on to the next entry
Return(p, how) ==
  /\ outcome' = [outcome EXCEPT ![p] = how]
  /\ walked' = walked + 1
  /\ count_fixed' = IF how = "modified" THEN count_fixed + 1 ELSE count_fixed
  /\ pc' = "walk" /\ cur' = OtherPath
  /\ content' = <<>> /\ tag' = <<>> /\ slot' = "none"
  /\ backed' = FALSE

\* main: an entry that is no .cue and no audio file is passed over
SkipEntry ==
  /\ pc = "walk"
  /\ walked < Len(Walk)
  /\ LET p == Walk[walked + 1] IN ~is_cue(p) /\ ~is_audio(p)
  /\ walked' = walked + 1
  /\ UNCHANGED <<fvars, args, disk, bak, run, count_fixed, faults, pc, cur,
                 content, tag, slot, hvars>>

\* process_cue, to the choice of the content to write
CueRead ==
  /\ pc = "walk"
  /\ walked < Len(Walk)
  /\ \E read \in {"ok", "err"} :
       LET p == Walk[walked + 1]
           c == cue_content(disk[p].bytes, force_cp1251_cue)
       IN /\ is_cue(p)
          /\ Fault(read)
          /\ Enter(p)
          /\ IF read = "err" THEN Return(p, "read_err")
             ELSE IF c.skip THEN Return(p, "utf8_ok")
             ELSE /\ pc' = "cue_backup" /\ cur' = p /\ content' = c.content
                  /\ UNCHANGED <<outcome, walked, count_fixed, tag, slot, backed>>
  /\ UNCHANGED <<fvars, args, disk, bak, run, orig, after1, outcome1>>

\* process_cue: backup_manager.backup_file(path)
CueBackup ==
  /\ pc = "cue_backup"
  /\ \E copy \in CopyOutcomes :
       LET b == backup_file(no_backup, disk[cur], bak[cur], copy) IN
         /\ Fault(IF no_backup THEN "ok" ELSE copy)
         /\ bak' = [bak EXCEPT ![cur] = b.bak]
         /\ IF b.ok
            THEN /\ pc' = "cue_write" /\ backed' = TRUE
                 /\ UNCHANGED <<outcome, walked, count_fixed, cur, content, tag, slot>>
            ELSE Return(cur, "backup_err")
  /\ UNCHANGED <<fvars, args, disk, run, pre, prebak, orig, after1, outcome1>>

\* process_cue: fs::write(path, content.as_bytes()).  It fails before the
\* file is opened, or after File::create has truncated it.
CueWrite ==
  /\ pc = "cue_write"
  /\ \E w \in {"ok", "err", "err_truncated"} :
       /\ Fault(w)
       /\ disk' = [disk EXCEPT ![cur].bytes =
                     IF w = "ok" THEN as_bytes(content)
                     ELSE IF w = "err" THEN @ ELSE <<>>]
       /\ Return(cur, IF w = "ok" THEN "modified" ELSE "write_err")
  /\ UNCHANGED <<fvars, args, bak, run, pre, prebak, orig, after1, outcome1>>

\* process_audio, to the insertion of the fixes into the tag
AudioRead ==
  /\ pc = "walk"
  /\ walked < Len(Walk)
  /\ \E read \in {"ok", "err"} :
       LET p == Walk[walked + 1]
           s == select_tag(disk[p])
           items == tag_of(disk[p], s).items
           fixes == collect_fixes(items, cyr_threshold)
       IN /\ is_audio(p)
          /\ Fault(read)
          /\ Enter(p)
          /\ IF read = "err" THEN Return(p, "read_err")
             ELSE IF s = "none" THEN Return(p, "no_tag")
             ELSE IF fixes = <<>> THEN Return(p, "no_fixes")
             ELSE /\ pc' = "audio_backup" /\ cur' = p
                  /\ tag' = apply_fixes(items, fixes) /\ slot' = s
                  /\ UNCHANGED <<outcome, walked, count_fixed, content, backed>>
  /\ UNCHANGED <<fvars, args, disk, bak, run, orig, after1, outcome1>>

\* process_audio: backup_manager.backup_file(path)
AudioBackup ==
  /\ pc = "audio_backup"
  /\ \E copy \in CopyOutcomes :
       LET b == backup_file(no_backup, disk[cur], bak[cur], copy) IN
         /\ Fault(IF no_backup THEN "ok" ELSE copy)
         /\ bak' = [bak EXCEPT ![cur] = b.bak]
         /\ IF b.ok
            THEN /\ pc' = "audio_save" /\ backed' = TRUE
                 /\ UNCHANGED <<outcome, walked, count_fixed, cur, content, tag, slot>>
            ELSE Return(cur, "backup_err")
  /\ UNCHANGED <<fvars, args, disk, run, pre, prebak, orig, after1, outcome1>>

\* process_audio: tag.save_to_path(path, WriteOptions::default()).  A save
\* that returns Err is taken to have left the file as it was.
AudioSave ==
  /\ pc = "audio_save"
  /\ \E save \in {"ok", "err"} :
       /\ Fault(save)
       /\ disk' = [disk EXCEPT ![cur] =
                     IF save = "ok" THEN save_to_path(@, slot, tag) ELSE @]
       /\ Return(cur, IF save = "ok" THEN "modified" ELSE "write_err")
  /\ UNCHANGED <<fvars, args, bak, run, pre, prebak, orig, after1, outcome1>>

\* main has walked the whole tree; the tool is started again on the same
\* tree with the same options
Rerun ==
  /\ pc = "walk" /\ walked = Len(Walk) /\ run = 1
  /\ run' = 2 /\ walked' = 0 /\ count_fixed' = 0
  /\ after1' = disk /\ outcome1' = outcome
  /\ outcome' = NoOutcomes /\ pre' = disk /\ prebak' = bak
  /\ UNCHANGED <<fvars, args, disk, bak, faults, pc, cur, content, tag, slot,
                 backed, orig>>

Next ==
  \/ SkipEntry
  \/ CueRead \/ CueBackup \/ CueWrite
  \/ AudioRead \/ AudioBackup \/ AudioSave
  \/ Rerun

Spec == Init /\ [][Next]_vars

\* --------------------------------------------------- claims about SpecFix
\* a character of the Cyrillic block U+0400..U+04FF occurs in s
HasCyrillic(s) == \E i \in DOMAIN s : s[i] \in 1024..1279

\* C1. Conservativeness: fix_mojibake returns None for every text with a
\* character of the Cyrillic block, whatever the threshold; a repair is
\* returned only for a text with no such character.
C1_Conservative ==
  /\ (stage # "init" /\ HasCyrillic(text)) => result = None
  /\ (stage # "init" /\ result.some) => ~HasCyrillic(text)

C1_Witness == stage = "applied" /\ HasCyrillic(text) /\ cyr_threshold < 0

\* C2. Round trip: re-encoding "Ëüâèöà ðîêà" to legacy bytes and decoding them
\* yields "Львица рока", and fix_mojibake with threshold 0.2 returns
\* Some("Львица рока").
C2_RoundTrip ==
  (stage = "applied" /\ text = Lvica /\ cyr_threshold = 2)
    => (candidate(text) = LvicaRoka /\ result = Some(LvicaRoka))

\* C3 as stated. Idempotence: for every text without Cyrillic and every
\* threshold, fix_mojibake applied to the result of its first application
\* (the repair, else the text) returns None.
C3_IdempotentAnyThreshold ==
  (stage = "reapplied" /\ ~HasCyrillic(text)) => again = None

\* C3 as amended: the same for every threshold >= 0.
C3_Idempotent ==
  (stage = "reapplied" /\ ~HasCyrillic(text) /\ cyr_threshold >= 0) => again = None

C3_Witness ==
  /\ stage = "reapplied" /\ ~HasCyrillic(text) /\ cyr_threshold >= 0
  /\ text # <<>> /\ again = None

\* C8. Threshold monotonicity: if fix_mojibake(t, th1) returns Some and
\* th2 < th1, fix_mojibake(t, th2) returns Some of the same string.
C8_Monotone ==
  (stage = "lowered" /\ result.some) => (lower.res.some /\ lower.res = result)

C8_Witness == stage = "lowered" /\ result.some /\ lower.th < cyr_threshold

\* C9. Division by zero: when the candidate repair is empty after trimming
\* (the text is empty or whitespace only) fix_mojibake returns None for every
\* threshold, negative ones too; Some("") is never returned.
C9_EmptyIsNone ==
  /\ (stage # "init" /\ candidate(text) = <<>>) => result = None
  /\ (stage # "init" /\ result.some) => result.val # <<>>

C9_Witness ==
  stage = "applied" /\ text # <<>> /\ trim(text) = <<>> /\ cyr_threshold < 0

SelectedItems(f) == tag_of(f, select_tag(f)).items

\* the item is a text field whose repair fix_mojibake accepts
Accepted(item) == item.text /\ fix_mojibake(item.val, cyr_threshold).some

Corrected(item) ==
  IF Accepted(item)
  THEN [item EXCEPT !.val = fix_mojibake(item.val, cyr_threshold).val]
  ELSE item

\* the fields of a tag, with the number of times each occurs
ItemsBag(items) ==
  [x \in Range(items) |-> Cardinality({i \in DOMAIN items : items[i] = x})]

DistinctKeys(items) ==
  \A i, j \in DOMAIN items : items[i].key = items[j].key => i = j

\* the file of p holds the corrected value of every accepted field of the
\* tag selected when process_audio was entered, every other field as it was,
\* and nothing else of the file has changed
ExactCommit(p) ==
  LET s == select_tag(pre[p])
      was == tag_of(pre[p], s).items
  IN /\ select_tag(disk[p]) = s
     /\ ItemsBag(tag_of(disk[p], s).items)
          = ItemsBag([i \in DOMAIN was |-> Corrected(was[i])])
     /\ disk[p] = save_to_path(pre[p], s, tag_of(disk[p], s).items)

\* what C5 says of a failed save and of a tag without accepted repair
CommitOrNothing(p) ==
  /\ (outcome[p] = "write_err") => disk[p] = pre[p]
  /\ (outcome[p] # "none" /\ \A i \in DOMAIN SelectedItems(pre[p]) :
                               ~Accepted(SelectedItems(pre[p])[i]))
       => (outcome[p] # "modified" /\ disk[p] = pre[p] /\ bak[p] = prebak[p])
  /\ count_fixed = Cardinality({q \in Paths : outcome[q] = "modified"})

\* C4. Backup before mutation: with backups enabled, process_cue and
\* process_audio change the file only after backup_file has succeeded in the
\* same call, when <name>.bak holds the content the file has before the
\* write; when backup_file fails the file is not written, the processor
\* returns false and main goes on with the next entry.
C4_BackupBeforeWrite ==
  [][/\ \A p \in Paths :
          (~no_backup /\ disk'[p] # disk[p])
            => (p = cur /\ backed /\ bak[p] = Bak(disk[p]) /\ disk[p] = pre[p])
     /\ (pc \in {"cue_backup", "audio_backup"} /\ pc' = "walk")
          => /\ disk' = disk /\ disk[cur] = pre[cur]
             /\ outcome'[cur] = "backup_err"
             /\ count_fixed' = count_fixed
             /\ walked' = walked + 1]_vars

C4_Witness ==
  /\ ~no_backup
  /\ outcome[CuePath] = "backup_err" /\ disk[CuePath] = pre[CuePath]
  /\ outcome[AudioPath] = "modified" /\ disk[AudioPath] # pre[AudioPath]
  /\ bak[AudioPath] = Bak(pre[AudioPath])

Untouched(p) ==
  /\ disk[p] = after1[p]
  /\ (outcome1[p] = "modified" /\ ~no_backup) => bak[p] = Bak(orig[p])

\* C7 as stated. Re-running is safe: after a complete run a second run with
\* the same options, whatever they are, changes no file and leaves every .bak
\* of the first run equal to the original file.  (Read in the claim's favour:
\* only of two runs that meet no I/O error.)
C7_RerunAnyOptions ==
  (run = 2 /\ faults = 0) => \A p \in Paths : Untouched(p)

\* C7 as amended: the same without --force-cp1251-cue and with a threshold
\* >= 0, of every file the first run processed without an I/O error.
C7_Rerun ==
  (run = 2 /\ ~force_cp1251_cue /\ cyr_threshold >= 0)
    => \A p \in Paths : outcome1[p] \notin Errors => Untouched(p)

C7_Witness ==
  /\ run = 2 /\ walked = Len(Walk)
  /\ ~force_cp1251_cue /\ cyr_threshold >= 0 /\ ~no_backup
  /\ outcome1[CuePath] = "modified" /\ outcome[CuePath] = "utf8_ok"
  /\ bak[CuePath] = Bak(orig[CuePath])

====
